---- MODULE Spec2Model ----
(***************************************************************************)
(* StDemon (stdutil.py): the terminal process utility.                     *)
(*                                                                         *)
(* The module models                                                       *)
(*   - the screen stack of the TUI (show_main_menu, show_process_selector, *)
(*     show_process_details, show_advanced_info_tui),                      *)
(*   - the live output monitor monitor_io_streams with its tracer          *)
(*     subprocess, the tracer's output pipe, the operator's terminal and   *)
(*     the target process as environment,                                  *)
(*   - the fact collector get_proc_info as a function of the state of the  *)
(*     per-process sources,                                                *)
(*   - the section resolver get_section_content as a function of the state *)
(*     of the category's source, and the advanced screen that caches it,   *)
(*   - search_processes on lists of (pid, command) pairs.                  *)
(***************************************************************************)
EXTENDS Integers, Sequences, FiniteSets, TLC

VARIABLES
    app,            \* "running" | "exited" (main returned) | "crashed" (exception reached main)
    stack,          \* the screens whose loops are on the call stack, innermost last
    key,            \* the key the active screen's getch() returned last
    menu_idx,       \* show_main_menu: selected_idx
    mode,           \* show_process_details: mode
    selected_section, \* show_process_details: selected_section
    collapsed,      \* show_process_details: collapsed (function 0..NumSections-1 -> BOOLEAN)
    selected_menu,  \* show_process_details: selected_menu
    page_size,      \* show_process_selector: page_size
    page,           \* show_process_selector: page
    sel_idx,        \* show_process_selector: selected_idx
    sel_processes,  \* show_process_selector: processes, the list it was called with
    filtered_processes, \* show_process_selector: filtered_processes
    sel_search_term, \* show_process_selector: search_term (<<>> for None)
    search_buf,     \* show_process_selector: search_buf
    sel_pc,         \* show_process_selector: "keys" (main loop) | "search" (input loop)
    selected,       \* show_main_menu: selected, what the selector returned (<<>> for None)
    LINES,          \* curses.LINES, the terminal's height
    terminal,       \* "ok" | "small": whether the terminal is large enough to draw on
    host_procs,     \* the process table get_all_processes finds
    proc_info,      \* show_process_details: kind of the held snapshot
    section_content, \* show_advanced_info_tui: section_content (category -> list of lines)
    adv_collapsed,  \* show_advanced_info_tui: collapsed (function 0..4 -> BOOLEAN)
    adv_selected_idx, \* show_advanced_info_tui: selected_idx
    scroll_pos,     \* show_advanced_info_tui: scroll_pos
    targetAlive,    \* os.path.exists("/proc/<pid>") for the chosen pid
    mpc,            \* monitor_io_streams: position in the function
    probeRes,       \* monitor_io_streams: outcome of the `which strace` probe in this session
    existRes,       \* monitor_io_streams: outcome of the pre-launch existence check
    process,        \* monitor_io_streams: local `process` (index into tracers), 0 = unbound
    exc,            \* monitor_io_streams: exception in flight ("none" when none)
    how,            \* monitor_io_streams: how the streaming loop / try block was left
    acked,          \* monitor_io_streams: input() returned in this session
    lastMsg,        \* the last text the monitor wrote to the operator display
    sessions,       \* number of monitor sessions started so far
    tracers,        \* every tracer subprocess created so far (OS state and Popen handle state)
    pipe,           \* lines written by the session's tracer and not yet read
    stdinLine,      \* a full line typed by the operator and not yet read
    src,            \* get_proc_info: state of each per-process source
    fd_dir,         \* get_proc_info: the entries os.listdir finds in /proc/<pid>/fd, in its order
    info,           \* get_proc_info: the returned mapping (set of field groups)
    consulted,      \* get_proc_info: the per-process sources the call tested or opened
    cpc,            \* get_proc_info: "ready" | "returned" | "raised"
    sec,            \* state of the five sources get_section_content reads, by category
    category,       \* get_section_content: section_id
    content,        \* get_section_content: the returned list of lines
    gpc,            \* get_section_content: "ready" | "returned"
    system,         \* get_all_processes: platform.system()
    ps_result,      \* get_all_processes: what the listing utility does when run
    listed,         \* get_all_processes: processes, the returned list
    diag,           \* get_all_processes: the message printed, "none" if none
    lpc,            \* get_all_processes: "ready" | "returned" | "raised"
    processes,      \* search_processes: the list of (pid, command) pairs searched
    search_term,    \* search_processes: the term, as the caller passes it
    filtered,       \* the list search_processes returned
    refiltered,     \* the list search_processes returned when applied to `filtered`
    spc             \* search_processes: "ready" | "once" | "twice"

advVars == <<section_content, adv_collapsed, adv_selected_idx, scroll_pos>>
selLocals == <<page_size, page, sel_idx, sel_processes, filtered_processes,
               sel_search_term, search_buf, sel_pc>>
selVars == <<selLocals, selected>>
hostVars == <<LINES, terminal, host_procs>>
uiVars == <<key, menu_idx, mode, selected_section, collapsed, selected_menu, proc_info, selVars,
            advVars>>
navVars == <<app, stack, uiVars>>
monVars == <<mpc, probeRes, existRes, process, exc, how, acked, lastMsg, sessions>>
envVars == <<targetAlive, tracers, pipe, stdinLine>>
colVars == <<src, fd_dir, info, consulted, cpc>>
secVars == <<sec, category, content, gpc>>
srchVars == <<processes, search_term, filtered, refiltered, spc>>
lstVars == <<system, ps_result, listed, diag, lpc>>
fnVars == <<colVars, secVars, srchVars, lstVars, hostVars>>
vars == <<navVars, monVars, envVars, fnVars>>

----------------------------------------------------------------------------
(* Bounds of the model *)

\* most lines the tracer's output pipe holds unread
MaxPipe == 1
\* most monitor sessions the operator starts in one run
MaxSessions == 2
\* most lines a maps or limits file holds
MaxLines == 7
\* most entries a descriptor directory holds
MaxFds == 3
\* most processes in a list that is searched
MaxProcs == 2
\* most characters of a search term
MaxTerm == 2
MaxDir == 11
MaxPsLines == 4
MaxTable == 5

----------------------------------------------------------------------------
(* Keys and tracer lines *)

Min(a, b) == IF a < b THEN a ELSE b
Max(a, b) == IF a > b THEN a ELSE b

Keys == {"Up", "Down", "Left", "Right", "Enter", "Quit", "Other"}

\* the keys that move between the panes of the detail screen or leave it
PaneKeys == {"Left", "Right", "Quit", "Other"}

\* the keys of the advanced screen
AdvKeys == Keys \cup {"PageDown", "PageUp"}

\* kinds of line strace prints:
\*   write1    write(1, "...", n) = n            the target wrote to fd 1
\*   write2kw  write(2, "...exit...", n) = n     a write to another fd whose text holds a keyword
\*   status    strace: Process 1 attached / +++ exited with 0 +++
\*   other     anything else
LineKinds == {"write1", "write2kw", "status", "other"}

Top == IF Len(stack) = 0 THEN "none" ELSE stack[Len(stack)]
\* a return that leaves the screen open
PopIgnored(s) == s

Pop(s) == SubSeq(s, 1, Len(s) - 1)

----------------------------------------------------------------------------
(* The tracer subprocess: OS process state and the state of its Popen handle *)

\* a tracer just created by subprocess.Popen for session s
NewTracer(s) ==
    [sess |-> s, st |-> "running", sigterm |-> FALSE, sigkill |-> FALSE, returncode |-> FALSE]

\* the session's tracer has a line to read or its output is at end-of-stream
Cur == tracers[process]
AtEOF == process # 0 /\ Cur.st = "exited" /\ pipe = <<>>

\* process.terminate(): polls the child first and signals it only if it has not exited
Terminate(t) ==
    IF t.st = "exited" THEN [t EXCEPT !.returncode = TRUE] ELSE [t EXCEPT !.sigterm = TRUE]

\* process.kill() after wait() timed out: SIGKILL is sent, nothing waits for the child
Kill(t) ==
    IF t.st = "exited" THEN [t EXCEPT !.returncode = TRUE] ELSE [t EXCEPT !.sigkill = TRUE]

\* process.wait(timeout=2) followed by the except branch: the child is reaped if it
\* has exited or exits within the grace period (inTime), and killed otherwise
WaitThenKill(t, inTime) ==
    IF t.st = "exited" \/ inTime
    THEN [t EXCEPT !.st = "exited", !.returncode = TRUE]
    ELSE Kill(t)

----------------------------------------------------------------------------
(* monitor_io_streams *)

InLoop == mpc \in {"top", "read", "poll"}
InTry == mpc \in {"launch", "top", "read", "poll"}

\* what the loop prints for one line of tracer output: the unescaped text of a write
\* to descriptor 1 ("payload"), or "[strace] " and the whole line when the line holds
\* one of the four keywords anywhere ("status"), the text of a traced write included
HasWrite1(l) == l = "write1"
HasKeyword(l) == l \in {"write2kw", "status"}
Shown(l) ==
    IF HasWrite1(l) THEN "payload"
    ELSE IF HasKeyword(l) THEN "status"
    ELSE lastMsg

\* the call monitor_io_streams(pid) from the detail screen's menu
MonitorCall ==
    /\ sessions < MaxSessions
    /\ stack' = Append(stack, "monitor")
    /\ mpc' = "probe"
    /\ sessions' = sessions + 1
    /\ probeRes' = "none" /\ existRes' = "none" /\ process' = 0
    /\ exc' = "none" /\ how' = "none" /\ acked' = FALSE /\ lastMsg' = "none"
    /\ pipe' = <<>> /\ stdinLine' = "none"
    /\ UNCHANGED <<targetAlive, tracers>>

\* the function returns to show_process_details
MonReturn ==
    /\ mpc' = "returned"
    /\ stack' = Pop(stack)
    /\ UNCHANGED app

\* an exception leaves the function: no screen catches it (each catches curses.error
\* only), curses.wrapper re-raises it and main reports it and exits
MonRaise ==
    /\ mpc' = "raised"
    /\ stack' = <<>>
    /\ app' = "crashed"

\* try: subprocess.run(['which', 'strace'], check=True, ...)
\* except subprocess.CalledProcessError: print("Error: strace is not installed ...")
Probe ==
    /\ mpc = "probe"
    /\ \E r \in {"ok", "missing"} :
        /\ probeRes' = r
        /\ IF r = "ok"
           THEN mpc' = "exists" /\ UNCHANGED lastMsg
           ELSE mpc' = "ack_probe" /\ lastMsg' = "not_installed"
    /\ UNCHANGED <<app, stack, uiVars>>
    /\ UNCHANGED <<existRes, process, exc, how, acked, sessions>>
    /\ UNCHANGED <<envVars, fnVars>>

\* input("\nPress Enter to continue...") after the probe failed, then return
AckProbe ==
    /\ mpc = "ack_probe"
    /\ acked' = TRUE
    /\ MonReturn
    /\ UNCHANGED uiVars
    /\ UNCHANGED <<probeRes, existRes, process, exc, how, lastMsg, sessions>>
    /\ UNCHANGED <<envVars, fnVars>>

\* if not os.path.exists(proc_path): print, return; else the three banner lines
CheckExists ==
    /\ mpc = "exists"
    /\ IF targetAlive
       THEN /\ existRes' = "yes"
            /\ lastMsg' = "banner"
            /\ mpc' = "launch"
            /\ UNCHANGED <<stack, app>>
       ELSE /\ existRes' = "no"
            /\ lastMsg' = "not_exist"
            /\ MonReturn
    /\ UNCHANGED uiVars
    /\ UNCHANGED <<probeRes, process, exc, how, acked, sessions>>
    /\ UNCHANGED <<envVars, fnVars>>

\* the handlers of the try statement: KeyboardInterrupt and SubprocessError are
\* reported and swallowed, anything else stays in flight through the finally block
Handle(e) ==
    /\ mpc' = "fin_term"
    /\ CASE e = "KeyboardInterrupt" -> exc' = "none" /\ how' = "stopped" /\ lastMsg' = "stopped"
         [] e = "SubprocessError" -> exc' = "none" /\ how' = "failed" /\ lastMsg' = "error"
         [] OTHER -> exc' = e /\ how' = "raised" /\ UNCHANGED lastMsg

\* the launch moved in front of the existence check
AtLaunchUnchecked == mpc \in {"exists", "launch"}

\* the launch moved into the streaming loop
AtLaunchInLoop == mpc \in {"launch", "top"}

\* the tracer is launched once, after the two checks and before the loop
AtLaunch == mpc = "launch"

\* subprocess.Popen(["strace", "-p", pid, "-e", "trace=write", "-s", "1024", "-f"], ...)
Launch ==
    /\ AtLaunch
    /\ \E r \in {"ok", "OSError", "SubprocessError"} :
        IF r = "ok"
        THEN /\ tracers' = Append(tracers, NewTracer(sessions))
             /\ process' = Len(tracers) + 1
             /\ mpc' = "top"
             /\ UNCHANGED <<exc, how, lastMsg>>
        ELSE /\ Handle(r)
             /\ UNCHANGED <<tracers, process>>
    /\ UNCHANGED <<app, stack, uiVars>>
    /\ UNCHANGED <<probeRes, existRes, acked, sessions>>
    /\ UNCHANGED <<targetAlive, pipe, stdinLine, fnVars>>

\* while True: if not os.path.exists(proc_path): print("[!] ... has exited."); break
LoopTop ==
    /\ mpc = "top"
    /\ IF targetAlive
       THEN /\ mpc' = "read"
            /\ UNCHANGED <<how, lastMsg>>
       ELSE /\ mpc' = "fin_term"
            /\ how' = "detached"
            /\ lastMsg' = "exited"
    /\ UNCHANGED <<app, stack, uiVars>>
    /\ UNCHANGED <<probeRes, existRes, process, exc, acked, sessions>>
    /\ UNCHANGED <<envVars, fnVars>>

\* line = process.stdout.readline(): returns when the pipe holds a line or is at
\* end-of-stream, and blocks otherwise; then the line is classified and shown
ReadLine ==
    /\ mpc = "read"
    /\ \/ /\ pipe # <<>>
          /\ lastMsg' = Shown(Head(pipe))
          /\ pipe' = Tail(pipe)
       \/ /\ AtEOF
          /\ UNCHANGED <<lastMsg, pipe>>
    /\ mpc' = "poll"
    /\ UNCHANGED <<app, stack, uiVars>>
    /\ UNCHANGED <<probeRes, existRes, process, exc, how, acked, sessions>>
    /\ UNCHANGED <<targetAlive, tracers, stdinLine, fnVars>>

\* the write to the target's standard input without its try: a failed write is an
\* OSError of the streaming loop
PollInputUncaught ==
    /\ mpc = "poll"
    /\ IF stdinLine = "none"
       THEN mpc' = "top" /\ UNCHANGED <<stdinLine, lastMsg, exc, how>>
       ELSE /\ stdinLine' = "none"
            /\ \E fd0 \in (IF targetAlive THEN BOOLEAN ELSE {FALSE}), wr \in BOOLEAN :
                 IF stdinLine = "text" /\ fd0
                 THEN IF wr
                      THEN mpc' = "top" /\ lastMsg' = "sent" /\ UNCHANGED <<exc, how>>
                      ELSE Handle("OSError")
                 ELSE mpc' = "top" /\ UNCHANGED <<lastMsg, exc, how>>
    /\ UNCHANGED <<app, stack, uiVars>>
    /\ UNCHANGED <<probeRes, existRes, process, acked, sessions>>
    /\ UNCHANGED <<targetAlive, tracers, pipe, fnVars>>


\* rlist = select.select([sys.stdin], [], [], 1) and the forwarding of a typed line
\* to /proc/<pid>/fd/0; fd0 is whether that path exists, wr whether the write succeeds
PollInput ==
    /\ mpc = "poll"
    /\ IF stdinLine = "none"
       THEN UNCHANGED <<stdinLine, lastMsg>>
       ELSE /\ stdinLine' = "none"
            /\ \E fd0 \in (IF targetAlive THEN BOOLEAN ELSE {FALSE}), wr \in BOOLEAN :
                 lastMsg' = IF stdinLine = "text" /\ fd0
                            THEN (IF wr THEN "sent" ELSE "send_error")
                            ELSE lastMsg
    /\ mpc' = "top"
    /\ UNCHANGED <<app, stack, uiVars>>
    /\ UNCHANGED <<probeRes, existRes, process, exc, how, acked, sessions>>
    /\ UNCHANGED <<targetAlive, tracers, pipe, fnVars>>

\* Ctrl+C while the try block runs: except KeyboardInterrupt
Interrupt ==
    /\ InTry
    /\ Handle("KeyboardInterrupt")
    /\ UNCHANGED <<app, stack, uiVars>>
    /\ UNCHANGED <<probeRes, existRes, process, acked, sessions>>
    /\ UNCHANGED <<envVars, fnVars>>

\* a read or a print in the loop raises (a closed terminal, an undecodable byte): the
\* exception matches neither handler
LoopError ==
    /\ mpc \in {"read", "poll"}
    /\ Handle("OSError")
    /\ UNCHANGED <<app, stack, uiVars>>
    /\ UNCHANGED <<probeRes, existRes, process, acked, sessions>>
    /\ UNCHANGED <<envVars, fnVars>>

\* finally: if 'process' in locals(): process.terminate()
FinTerminate ==
    /\ mpc = "fin_term"
    /\ IF process = 0
       THEN mpc' = "fin_check" /\ UNCHANGED tracers
       ELSE mpc' = "fin_wait" /\ tracers' = [tracers EXCEPT ![process] = Terminate(@)]
    /\ UNCHANGED <<app, stack, uiVars>>
    /\ UNCHANGED <<probeRes, existRes, process, exc, how, acked, lastMsg, sessions>>
    /\ UNCHANGED <<targetAlive, pipe, stdinLine, fnVars>>

\* process.wait(timeout=2); except: process.kill()
FinWait ==
    /\ mpc = "fin_wait"
    /\ \E inTime \in BOOLEAN :
         tracers' = [tracers EXCEPT ![process] = WaitThenKill(@, inTime)]
    /\ mpc' = "fin_check"
    /\ UNCHANGED <<app, stack, uiVars>>
    /\ UNCHANGED <<probeRes, existRes, process, exc, how, acked, lastMsg, sessions>>
    /\ UNCHANGED <<targetAlive, pipe, stdinLine, fnVars>>

\* the function ends: it returns, or the exception in flight leaves it
MonEnd == IF exc = "none" THEN MonReturn ELSE MonRaise

\* if not os.path.exists(proc_path): input("Press Enter to return...")
FinCheck ==
    /\ mpc = "fin_check"
    /\ IF targetAlive
       THEN MonEnd
       ELSE mpc' = "ack" /\ UNCHANGED <<app, stack>>
    /\ UNCHANGED uiVars
    /\ UNCHANGED <<probeRes, existRes, process, exc, how, acked, lastMsg, sessions>>
    /\ UNCHANGED <<envVars, fnVars>>

\* the operator presses Enter at "Press Enter to return..."
Ack ==
    /\ mpc = "ack"
    /\ acked' = TRUE
    /\ MonEnd
    /\ UNCHANGED uiVars
    /\ UNCHANGED <<probeRes, existRes, process, exc, how, lastMsg, sessions>>
    /\ UNCHANGED <<envVars, fnVars>>

----------------------------------------------------------------------------
(* The environment of a monitor session *)

\* the target process exits (anything may end it)
TargetExits ==
    /\ app = "running"
    /\ targetAlive
    /\ targetAlive' = FALSE
    /\ UNCHANGED <<navVars, monVars, tracers, pipe, stdinLine, fnVars>>

\* the session's tracer prints a line
TracerPrints ==
    /\ InLoop
    /\ Cur.st = "running"
    /\ Len(pipe) < MaxPipe
    /\ \E l \in LineKinds : pipe' = Append(pipe, l)
    /\ UNCHANGED <<navVars, monVars, targetAlive, tracers, stdinLine, fnVars>>

\* a tracer exits: its tracee is gone, it could not attach, or a signal ended it
TracerExits ==
    /\ \E i \in DOMAIN tracers :
         /\ tracers[i].st = "running"
         /\ tracers' = [tracers EXCEPT ![i].st = "exited"]
    /\ UNCHANGED <<navVars, monVars, targetAlive, pipe, stdinLine, fnVars>>

\* the operator types a line and presses Enter while the monitor streams
OperatorTypes ==
    /\ InLoop
    /\ stdinLine = "none"
    /\ \E l \in {"empty", "text"} : stdinLine' = l
    /\ UNCHANGED <<navVars, monVars, targetAlive, tracers, pipe, fnVars>>

----------------------------------------------------------------------------------------------------------------------------------------
(* get_all_processes *)

Systems == {"Linux", "Windows", "Other"}

\* a line of the utility's output: one with the fields the parser asks for
\* (len(parts) >= 11 for ps aux, len(parts) >= 2 for tasklist) or one with fewer
PsLineKinds == {"full", "short"}
PsOutputs == UNION {[1..n -> PsLineKinds] : n \in 0..MaxPsLines}

\* what subprocess.check_output raises: the utility is not installed
\* (FileNotFoundError) or exits with a non-zero status (CalledProcessError)
PsErrors == {"FileNotFoundError", "CalledProcessError"}

\* a run of the utility: the exception it ends in, or "none" and its output
PsResults ==
    {[err |-> e, out |-> <<>>] : e \in PsErrors}
        \cup {[err |-> "none", out |-> o] : o \in PsOutputs}

\* output.strip().split('\n'): an empty output is one empty line
PsLines(output) == IF output = <<>> THEN <<"short">> ELSE output

\* the lines the loop parses: ps aux without its header line, tasklist /nh whole
PsParsed(sys, output) ==
    IF sys = "Linux" THEN Tail(PsLines(output)) ELSE PsLines(output)

\* processes after the loop: one (pid, command) pair per line with enough fields,
\* in line order; a pair is named by the position of its line
PsPairs(sys, output) ==
    LET lines == PsParsed(sys, output)
        Full(i) == lines[i] = "full"
    IN SelectSeq([i \in 1..Len(lines) |-> i], Full)

\* the handler narrowed to the failure of a utility that ran
ListCaughtExitStatusOnly(e) == e = "CalledProcessError"

\* except Exception as e: both failures are Exceptions
ListCaught(e) == e \in PsErrors

\* one call of get_all_processes
GetAllProcesses ==
    /\ lpc = "ready"
    /\ IF system \notin {"Linux", "Windows"}
       THEN listed' = <<>> /\ diag' = "Unsupported operating system" /\ lpc' = "returned"
       ELSE IF ps_result.err \in PsErrors
       THEN IF ListCaught(ps_result.err)
            THEN listed' = <<>> /\ diag' = "Error getting process list" /\ lpc' = "returned"
            ELSE lpc' = "raised" /\ UNCHANGED <<listed, diag>>
       ELSE listed' = PsPairs(system, ps_result.out) /\ diag' = "none" /\ lpc' = "returned"
    /\ UNCHANGED <<system, ps_result>>
    /\ UNCHANGED <<navVars, monVars, envVars, colVars, secVars, srchVars, hostVars>>

----------------
(* search_processes *)

\* strings are sequences of characters; the characters of the model
Chars == {"a", "A", "b", "1", "2"}

\* str.lower(), character by character
LowerChar(c) == IF c = "A" THEN "a" ELSE c
Lower(str) == [i \in DOMAIN str |-> LowerChar(str[i])]

\* sub in str
Contains(sub, str) ==
    \E i \in 0..(Len(str) - Len(sub)) : SubSeq(str, i + 1, i + Len(sub)) = sub

\* the pid left out of the test
MatchesCommandOnly(proc, term) == Contains(term, Lower(proc[2]))

\* search_term in proc[0].lower() or search_term in proc[1].lower()
Matches(proc, term) ==
    \/ Contains(term, Lower(proc[1]))
    \/ Contains(term, Lower(proc[2]))

\* the first element of the list skipped, as the header line of a listing is
SearchSkipFirst(procs, term) ==
    LET t == Lower(term)
        Test(proc) == Matches(proc, t)
    IN IF procs = <<>> THEN <<>> ELSE SelectSeq(Tail(procs), Test)

\* search_processes(processes, search_term)
search_processes(procs, term) ==
    LET t == Lower(term)
        Test(proc) == Matches(proc, t)
    IN SelectSeq(procs, Test)

\* the processes and the terms of the model
ProcPool == {<<"1">>, <<"1", "2">>} \X {<<"a">>, <<"A", "b">>, <<"2">>}
ProcLists == UNION {[1..n -> ProcPool] : n \in 0..MaxProcs}
Terms == UNION {[1..n -> Chars] : n \in 0..MaxTerm}

\* search_processes applied to a list, and applied again to its own result
Search ==
    /\ spc = "ready"
    /\ filtered' = search_processes(processes, search_term)
    /\ spc' = "once"
    /\ UNCHANGED <<processes, search_term, refiltered>>
    /\ UNCHANGED <<navVars, monVars, envVars, colVars, secVars, lstVars, hostVars>>

SearchAgain ==
    /\ spc = "once"
    /\ refiltered' = search_processes(filtered, search_term)
    /\ spc' = "twice"
    /\ UNCHANGED <<processes, search_term, filtered>>
    /\ UNCHANGED <<navVars, monVars, envVars, colVars, secVars, lstVars, hostVars>>

----------------------------------------------------------------------------
(* get_section_content *)

\* the categories, in the order of the advanced screen's `sections` list
Categories == <<"maps", "fd", "cwd", "exe", "limits">>
CategorySet == {Categories[i] : i \in DOMAIN Categories}

\* one line of a section: a raw line of a file (id: its number), a descriptor
\* line "fd <id>: <text>", a resolved path, an error line, a placeholder
Line(kind, id, text) == [kind |-> kind, id |-> id, text |-> text]

\* the state of one source: st and what it holds
Source(st, items) == [st |-> st, items |-> items]

\* /proc/<pid>/maps and /proc/<pid>/limits: absent, a file of n lines, or a file
\* whose read fails after n lines
FileStates ==
    {Source("absent", <<>>)} \cup
    {Source(st, [i \in 1..n |-> i]) : st \in {"file", "unreadable"}, n \in 0..MaxLines}

\* /proc/<pid>/fd: absent, not listable, or a directory whose entries os.listdir
\* returns in some order, each a link that resolves or does not
FdIds == 0..(MaxFds - 1)
DirEntries == [id : FdIds, target : {"link", "broken"}]
DirListings ==
    UNION {{l \in [1..n -> DirEntries] :
               \A i, j \in 1..n : i # j => l[i].id # l[j].id} : n \in 0..MaxFds}
DirStates ==
    {Source("absent", <<>>), Source("unreadable", <<>>)} \cup
    {Source("dir", l) : l \in DirListings}

\* /proc/<pid>/cwd and /proc/<pid>/exe: a link that resolves, is absent, or may
\* not be read
LinkStates == {Source(st, <<>>) : st \in {"ok", "absent", "denied"}}

SourceStatesOf(c) ==
    CASE c \in {"maps", "limits"} -> FileStates
      [] c = "fd" -> DirStates
      [] OTHER -> LinkStates

\* the else branch of the existence test left out
FileContentNoPlaceholder(name, source) ==
    LET raw == [i \in 1..Len(source.items) |-> Line("raw", source.items[i], name)]
    IN CASE source.st = "absent" -> <<>>
         [] source.st = "file" -> raw
         [] OTHER -> Append(raw, Line("error", 0, "Error reading " \o name))

\* section_id == "maps" / "limits": the lines of the file, each rstrip()ped; the
\* error line after the lines read when the read fails; the placeholder otherwise
FileContent(name, source) ==
    LET raw == [i \in 1..Len(source.items) |-> Line("raw", source.items[i], name)]
    IN CASE source.st = "absent" -> <<Line("na", 0, name \o " not available")>>
         [] source.st = "file" -> raw
         [] OTHER -> Append(raw, Line("error", 0, "Error reading " \o name))

\* the listing stops at the first entry whose link does not resolve
FdContentAbort(source) ==
    CASE source.st = "absent" -> <<Line("na", 0, "fd not available")>>
      [] source.st = "unreadable" -> <<Line("error", 0, "Error reading fd")>>
      [] OTHER ->
           LET bad == {i \in DOMAIN source.items : source.items[i].target = "broken"}
               n == IF bad = {} THEN Len(source.items)
                    ELSE (CHOOSE i \in bad : \A j \in bad : i <= j) - 1
               lines == [i \in 1..n |-> Line("fd", source.items[i].id, "target")]
           IN IF bad = {} THEN lines
              ELSE Append(lines, Line("error", 0, "Error reading fd"))

\* section_id == "fd": one line per entry of os.listdir, in its order
FdContent(source) ==
    CASE source.st = "absent" -> <<Line("na", 0, "fd not available")>>
      [] source.st = "unreadable" -> <<Line("error", 0, "Error reading fd")>>
      [] OTHER ->
           [i \in 1..Len(source.items) |->
              Line("fd", source.items[i].id,
                   IF source.items[i].target = "broken" THEN "Error" ELSE "target")]

\* section_id == "cwd" / "exe": os.readlink or the error line
LinkContent(source) ==
    IF source.st = "ok" THEN <<Line("path", 0, "target")>>
    ELSE <<Line("error", 0, "Error")>>

\* get_section_content(proc_path, section_id) on a host whose sources are in the
\* states `host`
get_section_content(host, section_id) ==
    CASE section_id \in {"maps", "limits"} -> FileContent(section_id, host[section_id])
      [] section_id = "fd" -> FdContent(host["fd"])
      [] section_id \in {"cwd", "exe"} -> LinkContent(host[section_id])
      [] OTHER -> <<>>

\* one call of get_section_content
GetSectionContent ==
    /\ gpc = "ready"
    /\ content' = get_section_content(sec, category)
    /\ gpc' = "returned"
    /\ UNCHANGED <<sec, category, navVars, monVars, envVars, colVars, srchVars, lstVars, hostVars>>

\* a host where the pid is not present: none of its sources exists
AbsentHost == [c \in CategorySet |-> Source("absent", <<>>)]

\* a host where the pid is a kernel thread: no mappings, no descriptors, no
\* executable
KernelThreadHost ==
    [c \in CategorySet |->
        CASE c = "maps" -> Source("file", <<>>)
          [] c = "fd" -> Source("dir", <<>>)
          [] c = "exe" -> Source("absent", <<>>)
          [] c = "cwd" -> Source("ok", <<>>)
          [] OTHER -> Source("file", [i \in 1..MaxLines |-> i])]

\* a host where the pid belongs to another user: only limits may be read
DeniedHost ==
    [c \in CategorySet |->
        CASE c = "maps" -> Source("unreadable", <<>>)
          [] c = "fd" -> Source("unreadable", <<>>)
          [] c \in {"cwd", "exe"} -> Source("denied", <<>>)
          [] OTHER -> Source("file", [i \in 1..MaxLines |-> i])]

\* a host where the pid is an ordinary process of the operator
OrdinaryHost ==
    [c \in CategorySet |->
        CASE c \in {"maps", "limits"} -> Source("file", [i \in 1..MaxLines |-> i])
          [] c = "fd" -> Source("dir", <<[id |-> 0, target |-> "link"]>>)
          [] OTHER -> Source("ok", <<>>)]

----------------------------------------------------------------------------
(* The screens *)

\* the frame of a monitor_io_streams call that has returned is gone when the screen
\* below reads its next key: its locals and its pipe no longer exist, and what the
\* operator typed and the monitor did not read is read by getch() as keys
DropFrame ==
    IF mpc = "returned"
    THEN /\ mpc' = "idle"
         /\ probeRes' = "none" /\ existRes' = "none" /\ process' = 0
         /\ exc' = "none" /\ how' = "none" /\ acked' = FALSE /\ lastMsg' = "none"
         /\ pipe' = <<>> /\ stdinLine' = "none"
         /\ UNCHANGED sessions
    ELSE UNCHANGED <<monVars, pipe, stdinLine>>

\* show_main_menu: menu_items, and the index its Enter handler leaves the menu on
menu_items == <<"Processes", "Exit">>
ExitBranchIdx == 2

\* show_process_details: the number of sections and the menu
NumSections == 7
menu == <<"Refresh information", "Monitor stdout (using strace)",
          "Advanced info (memory maps, open files, etc)", "Return to main menu">>

\* get_proc_info(pid) as the detail screen sees it: not found, a snapshot, or a
\* snapshot whose collection failed and carries an error field
ProcInfoKinds == IF targetAlive THEN {"snapshot", "snapshot_error"} ELSE {"not_found"}
HasError(pi) == pi \in {"not_found", "snapshot_error"}

\* the locals show_process_details starts with
DetailLocals(pi) ==
    /\ proc_info' = pi
    /\ mode' = "sections"
    /\ selected_section' = 0
    /\ selected_menu' = 0
    /\ collapsed' = [i \in 0..(NumSections - 1) |-> FALSE]

\* the application leaves the TUI: show_main_menu returns "exit"
LeaveApp ==
    /\ stack' = <<>>
    /\ app' = "exited"

\* the (pid, command) pairs of the process table, in the order ps lists them
ProcTable ==
    << <<(<<"1">>), (<<"a">>)>>,
       <<(<<"2">>), (<<"A", "b">>)>>,
       <<(<<"1", "2">>), (<<"b">>)>>,
       <<(<<"2", "1">>), (<<"a", "b">>)>>,
       <<(<<"1", "1">>), (<<"2">>)>>,
       <<(<<"2", "2">>), (<<"a">>)>>,
       <<(<<"2", "1">>), (<<"A">>)>> >>

\* what get_all_processes returns: the first n processes of the table
SelHosts == {SubSeq(ProcTable, 1, n) : n \in 0..Min(MaxTable, Len(ProcTable))}

\* terminal heights: page sizes -1, 0, 1, 2 and 20
TermLines == {4, 5, 6, 7, 25}

\* the draw of the loop iteration succeeded, so the iteration reaches getch()
Drawn == terminal = "ok"

\* an exception other than curses.error leaves every screen's loop and reaches main
Escape ==
    /\ app' = "crashed"
    /\ stack' = <<>>

\* a // b of Python, b # 0: the quotient rounded towards minus infinity
FloorDiv(a, b) == IF b > 0 THEN a \div b ELSE (0 - a) \div (0 - b)

\* str.strip() of a buffer of characters
RECURSIVE Strip(_)
Strip(buf) ==
    IF buf = <<>> THEN buf
    ELSE IF Head(buf) = " " THEN Strip(Tail(buf))
    ELSE IF buf[Len(buf)] = " " THEN Strip(SubSeq(buf, 1, Len(buf) - 1))
    ELSE buf

\* the locals show_process_selector starts with
SelectorLocals(procs) ==
    /\ page_size' = Min(20, LINES - 5)
    /\ page' = 0
    /\ sel_idx' = 0
    /\ sel_processes' = procs
    /\ filtered_processes' = procs
    /\ sel_search_term' = <<>>
    /\ search_buf' = <<>>
    /\ sel_pc' = "keys"

\* show_main_menu's selected is assigned by the next call of the selector and read
\* nowhere once show_process_details has returned
DropSelected ==
    /\ selected' = IF stack' = <<"main">> THEN <<>> ELSE selected
    /\ UNCHANGED selLocals

\* no frame of show_process_selector exists
NoSelLocals ==
    /\ page_size = 0
    /\ page = 0
    /\ sel_idx = 0
    /\ sel_processes = <<>>
    /\ filtered_processes = <<>>
    /\ sel_search_term = <<>>
    /\ search_buf = <<>>
    /\ sel_pc = "keys"

\* the frame of show_process_selector is gone
DropSelLocals ==
    /\ page_size' = 0
    /\ page' = 0
    /\ sel_idx' = 0
    /\ sel_processes' = <<>>
    /\ filtered_processes' = <<>>
    /\ sel_search_term' = <<>>
    /\ search_buf' = <<>>
    /\ sel_pc' = "keys"

\* show_main_menu: one key. Enter on "Processes" calls get_all_processes and
\* show_process_selector, whose first statement after the locals divides by page_size
MainMenuKey(k) ==
    /\ app = "running" /\ Top = "main"
    /\ Drawn
    /\ key' = k
    /\ CASE k = "Up" ->
              /\ menu_idx' = IF menu_idx > 0 THEN menu_idx - 1 ELSE menu_idx
              /\ UNCHANGED <<app, stack, selVars>>
         [] k = "Down" ->
              /\ menu_idx' = IF menu_idx < Len(menu_items) - 1 THEN menu_idx + 1 ELSE menu_idx
              /\ UNCHANGED <<app, stack, selVars>>
         [] k = "Enter" ->
              /\ IF menu_idx = 0
                 THEN IF Min(20, LINES - 5) = 0
                      THEN Escape /\ UNCHANGED selVars
                      ELSE /\ stack' = Append(stack, "selector")
                           /\ SelectorLocals(host_procs)
                           /\ UNCHANGED <<app, selected>>
                 ELSE IF menu_idx = ExitBranchIdx
                      THEN LeaveApp /\ UNCHANGED selVars
                      ELSE UNCHANGED <<app, stack, selVars>>
              /\ UNCHANGED menu_idx
         [] k = "Quit" ->
              /\ LeaveApp
              /\ UNCHANGED <<menu_idx, selVars>>
         [] OTHER -> UNCHANGED <<app, stack, menu_idx, selVars>>
    /\ UNCHANGED <<mode, selected_section, collapsed, selected_menu, proc_info>>
    /\ UNCHANGED advVars
    /\ DropFrame
    /\ UNCHANGED <<targetAlive, tracers, fnVars>>

\* the keys of the selector's main loop
SelKeys == Keys \cup {"Search"}

\* the end of the search input: term = search_buf.strip() is applied to the list the
\* selector was called with, or the filter is dropped
EndSearch(buf) ==
    /\ search_buf' = buf
    /\ IF Strip(buf) # <<>>
       THEN /\ sel_search_term' = Strip(buf)
            /\ filtered_processes' = search_processes(sel_processes, Strip(buf))
       ELSE /\ sel_search_term' = <<>>
            /\ filtered_processes' = sel_processes
    /\ page' = 0
    /\ sel_idx' = 0
    /\ sel_pc' = "keys"

\* key in (curses.KEY_UP, ord('k'))
SelectorUp ==
    IF sel_idx > 0
    THEN sel_idx' = sel_idx - 1 /\ UNCHANGED page
    ELSE IF page > 0
    THEN page' = page - 1 /\ sel_idx' = page_size - 1
    ELSE UNCHANGED <<page, sel_idx>>

\* key in (curses.KEY_DOWN, ord('j'))
SelectorDown ==
    IF sel_idx < Min(page_size - 1, Len(filtered_processes) - page * page_size - 1)
    THEN sel_idx' = sel_idx + 1 /\ UNCHANGED page
    ELSE IF page < FloorDiv(Len(filtered_processes) - 1, page_size)
    THEN page' = page + 1 /\ sel_idx' = 0
    ELSE UNCHANGED <<page, sel_idx>>

\* Right that leaves the row where it was
SelectorRightKeepsRow ==
    IF page < FloorDiv(Len(filtered_processes) - 1, page_size)
    THEN page' = page + 1 /\ UNCHANGED sel_idx
    ELSE UNCHANGED <<page, sel_idx>>

\* key in (curses.KEY_RIGHT, ord('l')) and page < (len(filtered_processes)-1)//page_size
SelectorRight ==
    IF page < FloorDiv(Len(filtered_processes) - 1, page_size)
    THEN page' = page + 1 /\ sel_idx' = 0
    ELSE UNCHANGED <<page, sel_idx>>

\* show_process_selector, the main loop: one key. Enter returns the element at the
\* global index to show_main_menu, which opens show_process_details on it; q returns
\* None; / draws the prompt and enters the input loop, or leaves it at once when the
\* prompt cannot be drawn
SelectorKey(k) ==
    /\ app = "running" /\ Top = "selector" /\ sel_pc = "keys"
    /\ Drawn
    /\ key' = k
    /\ CASE k = "Up" ->
              /\ SelectorUp
              /\ UNCHANGED <<stack, page_size, sel_processes, filtered_processes,
                             sel_search_term, search_buf, sel_pc, selected>>
              /\ UNCHANGED <<mode, selected_section, collapsed, selected_menu, proc_info>>
         [] k = "Down" ->
              /\ SelectorDown
              /\ UNCHANGED <<stack, page_size, sel_processes, filtered_processes,
                             sel_search_term, search_buf, sel_pc, selected>>
              /\ UNCHANGED <<mode, selected_section, collapsed, selected_menu, proc_info>>
         [] k = "Left" ->
              /\ IF page > 0
                 THEN page' = page - 1 /\ sel_idx' = 0
                 ELSE UNCHANGED <<page, sel_idx>>
              /\ UNCHANGED <<stack, page_size, sel_processes, filtered_processes,
                             sel_search_term, search_buf, sel_pc, selected>>
              /\ UNCHANGED <<mode, selected_section, collapsed, selected_menu, proc_info>>
         [] k = "Right" ->
              /\ SelectorRight
              /\ UNCHANGED <<stack, page_size, sel_processes, filtered_processes,
                             sel_search_term, search_buf, sel_pc, selected>>
              /\ UNCHANGED <<mode, selected_section, collapsed, selected_menu, proc_info>>
         [] k = "Search" ->
              /\ \E prompt_drawn \in BOOLEAN :
                   IF prompt_drawn
                   THEN /\ search_buf' = <<>>
                        /\ sel_pc' = "search"
                        /\ UNCHANGED <<page, sel_idx, filtered_processes, sel_search_term>>
                   ELSE EndSearch(<<>>)
              /\ UNCHANGED <<stack, page_size, sel_processes, selected>>
              /\ UNCHANGED <<mode, selected_section, collapsed, selected_menu, proc_info>>
         [] k = "Quit" ->
              /\ stack' = Pop(stack)
              /\ selected' = <<>>
              /\ DropSelLocals
              /\ UNCHANGED <<mode, selected_section, collapsed, selected_menu, proc_info>>
         [] k = "Enter" ->
              LET idx == page * page_size + sel_idx
              IN IF filtered_processes # <<>> /\ 0 <= idx /\ idx < Len(filtered_processes)
                 THEN /\ selected' = filtered_processes[idx + 1]
                      /\ DropSelLocals
                      /\ \E pi \in ProcInfoKinds :
                           /\ DetailLocals(pi)
                           /\ stack' = Append(Pop(stack),
                                              IF HasError(pi) THEN "detail_error" ELSE "detail")
                 ELSE /\ UNCHANGED <<stack, selVars>>
                      /\ UNCHANGED <<mode, selected_section, collapsed, selected_menu,
                                     proc_info>>
         [] OTHER -> /\ UNCHANGED <<stack, selVars>>
                     /\ UNCHANGED <<mode, selected_section, collapsed, selected_menu,
                                    proc_info>>
    /\ UNCHANGED <<app, menu_idx>>
    /\ UNCHANGED advVars
    /\ DropFrame
    /\ UNCHANGED <<targetAlive, tracers, fnVars>>

\* what the operator types at the search prompt; "Other" is a key the loop ignores
SearchChars == {"a", "1", " "}
SearchKeys == {"Enter", "Esc", "Backspace", "Other"} \cup SearchChars

\* show_process_selector, the search input loop: one key. A character or a backspace
\* changes search_buf and redraws it; a redraw that raises curses.error (the terminal
\* has shrunk since h, w were read) leaves the loop through "except curses.error:
\* pass" with search_buf as it is. MaxTerm stands for w-10
SearchInputKey(c) ==
    /\ app = "running" /\ Top = "selector" /\ sel_pc = "search"
    /\ key' = c
    /\ CASE c = "Enter" -> EndSearch(search_buf)
         [] c = "Esc" -> EndSearch(<<>>)
         [] c = "Backspace" ->
              IF search_buf # <<>>
              THEN \E redrawn \in BOOLEAN :
                     IF redrawn
                     THEN /\ search_buf' = SubSeq(search_buf, 1, Len(search_buf) - 1)
                          /\ UNCHANGED <<page, sel_idx, filtered_processes, sel_search_term,
                                         sel_pc>>
                     ELSE EndSearch(SubSeq(search_buf, 1, Len(search_buf) - 1))
              ELSE UNCHANGED <<page, sel_idx, filtered_processes, sel_search_term,
                               search_buf, sel_pc>>
         [] c \in SearchChars ->
              IF Len(search_buf) < MaxTerm
              THEN \E redrawn \in BOOLEAN :
                     IF redrawn
                     THEN /\ search_buf' = Append(search_buf, c)
                          /\ UNCHANGED <<page, sel_idx, filtered_processes, sel_search_term,
                                         sel_pc>>
                     ELSE EndSearch(Append(search_buf, c))
              ELSE UNCHANGED <<page, sel_idx, filtered_processes, sel_search_term,
                               search_buf, sel_pc>>
         [] OTHER -> UNCHANGED <<page, sel_idx, filtered_processes, sel_search_term,
                                 search_buf, sel_pc>>
    /\ UNCHANGED <<page_size, sel_processes, selected>>
    /\ UNCHANGED <<app, stack, menu_idx, mode, selected_section, collapsed, selected_menu,
                   proc_info>>
    /\ UNCHANGED advVars
    /\ DropFrame
    /\ UNCHANGED <<targetAlive, tracers, fnVars>>

\* a loop iteration of the main menu, the selector or the detail screen whose draw
\* raises curses.error: the handler clears the screen and the loop starts over,
\* without having reached getch()
DrawRetry ==
    /\ app = "running" /\ Top \in {"main", "selector", "detail"}
    /\ Top = "selector" => sel_pc = "keys"
    /\ ~Drawn
    /\ UNCHANGED vars

\* show_process_details, "error" in proc_info: the message, any key, return
DetailErrorKey(k) ==
    /\ app = "running" /\ Top = "detail_error"
    /\ key' = k
    /\ stack' = Pop(stack)
    /\ UNCHANGED <<app, menu_idx, mode, selected_section, collapsed, selected_menu, proc_info>>
    /\ UNCHANGED advVars
    /\ DropFrame
    /\ UNCHANGED <<targetAlive, tracers, fnVars>>
    /\ DropSelected

\* every flag flipped
ToggleAll(flags, i) == [j \in DOMAIN flags |-> ~flags[j]]

\* collapsed[selected_section] = not collapsed[selected_section]
Toggle(flags, i) == [flags EXCEPT ![i] = ~@]

\* show_process_details, mode == "sections": one key
DetailSectionsKey(k) ==
    /\ app = "running" /\ Top = "detail" /\ mode = "sections"
    /\ Drawn
    /\ key' = k
    /\ CASE k = "Up" ->
              /\ selected_section' =
                   IF selected_section > 0 THEN selected_section - 1 ELSE selected_section
              /\ UNCHANGED <<stack, mode, collapsed>>
         [] k = "Down" ->
              /\ selected_section' =
                   IF selected_section < NumSections - 1
                   THEN selected_section + 1 ELSE selected_section
              /\ UNCHANGED <<stack, mode, collapsed>>
         [] k = "Right" ->
              /\ mode' = "menu"
              /\ UNCHANGED <<stack, selected_section, collapsed>>
         [] k = "Enter" ->
              /\ collapsed' = Toggle(collapsed, selected_section)
              /\ UNCHANGED <<stack, mode, selected_section>>
         [] k = "Quit" ->
              /\ stack' = Pop(stack)
              /\ UNCHANGED <<mode, selected_section, collapsed>>
         [] OTHER -> UNCHANGED <<stack, mode, selected_section, collapsed>>
    /\ UNCHANGED <<app, menu_idx, selected_menu, proc_info>>
    /\ UNCHANGED advVars
    /\ DropFrame
    /\ UNCHANGED <<targetAlive, tracers, fnVars>>
    /\ DropSelected

\* show_advanced_info_tui: the lines a Page Up / Page Down key scrolls by
PageStep == 5


\* show_advanced_info_tui: max_lines[section_id] and the selected section's id
max_lines(c) == Len(section_content[c])
SelectedCategory == Categories[adv_selected_idx + 1]

\* scroll_pos = min(scroll_pos + 5, content_length - 1)
PageDown(pos, content_length) == Min(pos + PageStep, content_length - 1)

\* scroll_pos = max(0, scroll_pos - 5)
PageUp(pos) == Max(0, pos - PageStep)

\* the offset kept across a change of selection or a collapse toggle
ResetScrollKept(pos) == pos

\* scroll_pos = 0  (reset when changing selection, collapsing or expanding)
ResetScroll(pos) == 0

\* the one offset applied to every section drawn
ContentScrollShared(i) == scroll_pos

\* draw: content_scroll = 0 if i != selected_idx else scroll_pos
content_scroll(i) == IF i # adv_selected_idx THEN 0 ELSE scroll_pos

\* no call of show_advanced_info_tui is open: its locals do not exist
NoAdvLocals ==
    /\ section_content = [c \in CategorySet |-> <<>>]
    /\ adv_collapsed = [i \in 0..(Len(Categories) - 1) |-> FALSE]
    /\ adv_selected_idx = 0
    /\ scroll_pos = 0

\* show_advanced_info_tui returns: its locals are gone
DropAdvLocals ==
    /\ section_content' = [c \in CategorySet |-> <<>>]
    /\ adv_collapsed' = [i \in 0..(Len(Categories) - 1) |-> FALSE]
    /\ adv_selected_idx' = 0
    /\ scroll_pos' = 0

\* the locals show_advanced_info_tui starts with: the content of every section is
\* fetched once, nothing is collapsed, the first section is selected
AdvLocals ==
    /\ section_content' = [c \in CategorySet |-> get_section_content(sec, c)]
    /\ adv_collapsed' = [i \in 0..(Len(Categories) - 1) |-> FALSE]
    /\ adv_selected_idx' = 0
    /\ scroll_pos' = 0

\* the menu item chosen without a new call of get_proc_info
RefreshSkipped == UNCHANGED proc_info

\* proc_info = get_proc_info(pid)
Refresh == \E pi \in ProcInfoKinds : proc_info' = pi

\* show_process_details, mode == "menu": a key other than Enter on the monitor item
DetailMenuKey(k) ==
    /\ app = "running" /\ Top = "detail" /\ mode = "menu"
    /\ ~(k = "Enter" /\ selected_menu = 1)
    /\ Drawn
    /\ key' = k
    /\ CASE k = "Up" ->
              /\ selected_menu' = IF selected_menu > 0 THEN selected_menu - 1 ELSE selected_menu
              /\ UNCHANGED <<stack, mode, proc_info, advVars>>
         [] k = "Down" ->
              /\ selected_menu' =
                   IF selected_menu < Len(menu) - 1 THEN selected_menu + 1 ELSE selected_menu
              /\ UNCHANGED <<stack, mode, proc_info, advVars>>
         [] k = "Left" ->
              /\ mode' = "sections"
              /\ UNCHANGED <<stack, selected_menu, proc_info, advVars>>
         [] k = "Enter" ->
              /\ CASE selected_menu = 0 ->
                        /\ Refresh
                        /\ UNCHANGED <<stack, advVars>>
                   [] selected_menu = 2 ->
                        /\ IF targetAlive
                           THEN stack' = Append(stack, "advanced") /\ AdvLocals
                           ELSE stack' = Append(stack, "advanced_gone")
                                  /\ UNCHANGED advVars
                        /\ UNCHANGED proc_info
                   [] OTHER ->
                        /\ stack' = Pop(stack)
                        /\ UNCHANGED <<proc_info, advVars>>
              /\ UNCHANGED <<mode, selected_menu>>
         [] k = "Quit" ->
              /\ stack' = Pop(stack)
              /\ UNCHANGED <<mode, selected_menu, proc_info, advVars>>
         [] OTHER -> UNCHANGED <<stack, mode, selected_menu, proc_info, advVars>>
    /\ UNCHANGED <<app, menu_idx, selected_section, collapsed>>
    /\ DropFrame
    /\ UNCHANGED <<targetAlive, tracers, fnVars>>
    /\ DropSelected

\* show_process_details, mode == "menu": Enter on "Monitor stdout (using strace)":
\* curses.endwin(); monitor_io_streams(pid)
DetailMonitor ==
    /\ app = "running" /\ Top = "detail" /\ mode = "menu"
    /\ selected_menu = 1
    /\ Drawn
    /\ key' = "Enter"
    /\ MonitorCall
    /\ UNCHANGED <<app, menu_idx, mode, selected_section, collapsed, selected_menu, proc_info>>
    /\ UNCHANGED advVars
    /\ UNCHANGED fnVars
    /\ UNCHANGED selVars

\* selected_idx and collapsed named as if they were the caller's: a key of the advanced
\* screen moves the main menu's cursor with its own
CallerShared ==
    /\ menu_idx' = adv_selected_idx'
    /\ UNCHANGED <<mode, selected_section, collapsed, selected_menu>>

\* selected_idx, collapsed and scroll_pos are locals of show_advanced_info_tui: the
\* callers' variables of the same names are other variables
CallerKept == UNCHANGED <<menu_idx, mode, selected_section, collapsed, selected_menu>>

\* show_advanced_info_tui: the main loop, one key; on the "Process no longer
\* exists" screen any key returns
AdvancedKey(k) ==
    /\ app = "running" /\ Top \in {"advanced", "advanced_gone"}
    /\ key' = k
    /\ IF Top = "advanced_gone"
       THEN stack' = Pop(stack) /\ UNCHANGED advVars
       ELSE
         CASE k = "Quit" ->
                /\ stack' = Pop(stack)
                /\ DropAdvLocals
           [] k = "Up" ->
                /\ IF adv_selected_idx > 0
                   THEN adv_selected_idx' = adv_selected_idx - 1
                          /\ scroll_pos' = ResetScroll(scroll_pos)
                   ELSE UNCHANGED <<adv_selected_idx, scroll_pos>>
                /\ UNCHANGED <<stack, section_content, adv_collapsed>>
           [] k = "Down" ->
                /\ IF adv_selected_idx < Len(Categories) - 1
                   THEN adv_selected_idx' = adv_selected_idx + 1
                          /\ scroll_pos' = ResetScroll(scroll_pos)
                   ELSE UNCHANGED <<adv_selected_idx, scroll_pos>>
                /\ UNCHANGED <<stack, section_content, adv_collapsed>>
           [] k = "Enter" ->
                /\ adv_collapsed' = [adv_collapsed EXCEPT ![adv_selected_idx] = ~@]
                /\ scroll_pos' = ResetScroll(scroll_pos)
                /\ UNCHANGED <<stack, section_content, adv_selected_idx>>
           [] k = "PageDown" ->
                /\ scroll_pos' = IF ~adv_collapsed[adv_selected_idx]
                                 THEN PageDown(scroll_pos, max_lines(SelectedCategory))
                                 ELSE scroll_pos
                /\ UNCHANGED <<stack, section_content, adv_collapsed, adv_selected_idx>>
           [] k = "PageUp" ->
                /\ scroll_pos' = IF ~adv_collapsed[adv_selected_idx]
                                 THEN PageUp(scroll_pos)
                                 ELSE scroll_pos
                /\ UNCHANGED <<stack, section_content, adv_collapsed, adv_selected_idx>>
           [] OTHER -> UNCHANGED <<stack, advVars>>
    /\ CallerKept
    /\ UNCHANGED <<app, proc_info>>
    /\ DropFrame
    /\ UNCHANGED <<targetAlive, tracers, fnVars>>
    /\ UNCHANGED selVars

----------------------------------------------------------------------------
(* get_proc_info *)

\* the per-process sources in the order get_proc_info reads them
SourceOrder == <<"status", "cmdline", "statm", "stat", "fd", "io">>
Sources == {SourceOrder[i] : i \in DOMAIN SourceOrder}

\* a source is absent (os.path.exists is false), readable, present but unreadable
\* (PermissionError), or gone between its existence check and its read
SourceStates == {"absent", "ok", "denied", "vanished"}

\* for fd in fd_list[:10]
FdDetailCap == 10

\* the descriptor directory as os.listdir returns it: one entry per position, named
\* by its position, whose link os.readlink resolves ("link") or fails on ("broken")
FdTargets == {"link", "broken"}
FdListings == UNION {[1..n -> FdTargets] : n \in 0..MaxDir}

\* the loop over the listed entries with no slice
FdDetailsUncapped(fd_list) ==
    LET Resolves(i) == fd_list[i] = "link"
    IN SelectSeq([i \in 1..Len(fd_list) |-> i], Resolves)

\* info["fd_details"]: the loop over fd_list[:10]; an entry whose readlink raises is
\* skipped by the bare except, each other one appends its (fd, target) pair, here
\* the entry's name
fd_details(fd_list) ==
    LET Resolves(i) == fd_list[i] = "link"
    IN SelectSeq([i \in 1..Min(FdDetailCap, Len(fd_list)) |-> i], Resolves)

\* the fields a readable source contributes to the snapshot
FieldsOf(s) ==
    CASE s = "status" -> ("Name" :> "value")
      [] s = "cmdline" -> ("cmdline" :> "value")
      [] s = "statm" -> ("memory" :> "value")
      [] s = "stat" -> ("cpu" :> "value") @@ ("uptime" :> "value")
      [] s = "fd" -> ("fd_count" :> Len(fd_dir)) @@ ("fd_details" :> fd_details(fd_dir))
      [] OTHER -> ("io" :> "value")

\* the except clauses around one source: fd catches PermissionError, io catches
\* everything, the others have none of their own
CaughtLocally(s, st) ==
    \/ s = "fd" /\ st = "denied"
    \/ s = "io"

\* what a locally caught failure leaves in the snapshot
Sentinel(s) ==
    IF s = "fd" THEN ("fd_count" :> "(Permission denied)")
    ELSE ("io" :> "(Unable to read I/O statistics)")

\* the body of the try statement from source i on, acc the mapping built so far
RECURSIVE CollectFrom(_, _, _)
CollectFrom(i, acc, sources) ==
    IF i > Len(SourceOrder) THEN acc
    ELSE LET s == SourceOrder[i]
             st == sources[s]
         IN CASE st = "absent" -> CollectFrom(i + 1, acc, sources)
              [] st = "ok" -> CollectFrom(i + 1, FieldsOf(s) @@ acc, sources)
              [] CaughtLocally(s, st) -> CollectFrom(i + 1, Sentinel(s) @@ acc, sources)
              [] OTHER -> ("error" :> "Error reading process information") @@ acc

\* the sources the body of the try statement touches from source i on: each is
\* tested with os.path.exists and opened if present, until a failure leaves the body
RECURSIVE ConsultedFrom(_, _)
ConsultedFrom(i, sources) ==
    IF i > Len(SourceOrder) THEN {}
    ELSE LET s == SourceOrder[i]
             st == sources[s]
         IN {s} \cup (IF st \in {"absent", "ok"} \/ CaughtLocally(s, st)
                      THEN ConsultedFrom(i + 1, sources)
                      ELSE {})

\* the existence check left out
ProcGoneUnchecked(sources) == FALSE

\* if not os.path.exists(proc_path): the first step on a Linux host
ProcGone(sources) == sources.proc = "absent"

\* get_proc_info(pid) for a pid whose /proc entry is in state sources.proc
get_proc_info(sources) ==
    IF ProcGone(sources)
    THEN ("error" :> "Process no longer exists")
    ELSE CollectFrom(1, <<>>, sources)

\* the per-process sources one call of get_proc_info touches
SourcesConsulted(sources) ==
    IF ProcGone(sources) THEN {} ELSE ConsultedFrom(1, sources)

\* a source that fails when it is listed or read: PermissionError, or
\* FileNotFoundError / ProcessLookupError once the process is gone
Failed(st) == st \in {"denied", "vanished"}

\* the outer handler narrowed to the exception the descriptor handler names
CaughtAtTopDeniedOnly(st) == st = "denied"

\* except Exception as e: every failure of a source is an Exception
CaughtAtTop(st) == Failed(st)

\* a failure leaves get_proc_info: its source has no handler that catches it and
\* the outer handler does not catch it either
Escapes(sources) ==
    /\ ~ProcGone(sources)
    /\ \E s \in ConsultedFrom(1, sources) :
         /\ Failed(sources[s])
         /\ ~CaughtLocally(s, sources[s])
         /\ ~CaughtAtTop(sources[s])

\* one call of get_proc_info
GetProcInfo ==
    /\ cpc = "ready"
    /\ consulted' = SourcesConsulted(src)
    /\ IF Escapes(src)
       THEN cpc' = "raised" /\ UNCHANGED info
       ELSE cpc' = "returned" /\ info' = get_proc_info(src)
    /\ UNCHANGED <<src, fd_dir, navVars, monVars, envVars, secVars, srchVars, lstVars, hostVars>>

----------------------------------------------------------------------------
(* Specifications *)

InitNav ==
    /\ app = "running"
    /\ stack = <<"main">>
    /\ key = "none"
    /\ menu_idx = 0
    /\ mode = "sections"
    /\ selected_section = 0
    /\ selected_menu = 0
    /\ collapsed = [i \in 0..(NumSections - 1) |-> FALSE]
    /\ proc_info = "none"
    /\ NoAdvLocals
    /\ NoSelLocals
    /\ selected = <<>>

\* a terminal of 24 lines and a process table of one process
InitHost ==
    /\ LINES = 24
    /\ terminal = "ok"
    /\ host_procs = <<ProcTable[1]>>

InitMon ==
    /\ mpc = "idle"
    /\ probeRes = "none" /\ existRes = "none" /\ process = 0
    /\ exc = "none" /\ how = "none" /\ acked = FALSE /\ lastMsg = "none"
    /\ sessions = 0

InitEnv ==
    /\ targetAlive = TRUE
    /\ tracers = <<>>
    /\ pipe = <<>>
    /\ stdinLine = "none"

InitLst ==
    /\ system = "Linux"
    /\ ps_result = [err |-> "none", out |-> <<"short", "full">>]
    /\ listed = <<>>
    /\ diag = "none"
    /\ lpc = "ready"

InitCol ==
    /\ src = [s \in Sources \cup {"proc"} |-> "ok"]
    /\ fd_dir = <<"link">>
    /\ info = <<>>
    /\ consulted = {}
    /\ cpc = "ready"

InitSec ==
    /\ sec = OrdinaryHost
    /\ category = "none"
    /\ content = <<>>
    /\ gpc = "ready"

InitSrch ==
    /\ processes = <<>>
    /\ search_term = <<>>
    /\ filtered = <<>>
    /\ refiltered = <<>>
    /\ spc = "ready"

\* the application: the screens, the monitor and its environment. In the section
\* pane of the detail screen and in the advanced screen the operator uses the pane
\* keys only: the section cursors, the collapse flags and the scroll offset stay
\* as the screens start them
Init == InitNav /\ InitMon /\ InitEnv /\ InitHost /\ InitLst /\ InitCol /\ InitSec /\ InitSrch

Next ==
    \/ \E k \in Keys : MainMenuKey(k)
    \/ \E k \in Keys : SelectorKey(k)
    \/ \E k \in Keys : DetailErrorKey(k)
    \/ \E k \in PaneKeys : DetailSectionsKey(k)
    \/ \E k \in Keys : DetailMenuKey(k)
    \/ DetailMonitor
    \/ \E k \in PaneKeys : AdvancedKey(k)
    \/ Probe
    \/ AckProbe
    \/ CheckExists
    \/ Launch
    \/ LoopTop
    \/ ReadLine
    \/ PollInput
    \/ Interrupt
    \/ LoopError
    \/ FinTerminate
    \/ FinWait
    \/ FinCheck
    \/ Ack
    \/ TargetExits
    \/ TracerPrints
    \/ TracerExits
    \/ OperatorTypes

Spec == Init /\ [][Next]_vars

\* get_proc_info on every state of the sources
CollectInit ==
    /\ InitNav /\ InitMon /\ InitEnv /\ InitHost /\ InitLst /\ InitSec /\ InitSrch
    /\ src \in [Sources \cup {"proc"} -> SourceStates]
    /\ src.proc \in {"ok", "absent"}
    /\ fd_dir = <<"link">>
    /\ info = <<>>
    /\ consulted = {}
    /\ cpc = "ready"

CollectNext == GetProcInfo

CollectSpec == CollectInit /\ [][CollectNext]_vars

\* get_proc_info on every listing of the descriptor directory and every state of it
FdInit ==
    /\ InitNav /\ InitMon /\ InitEnv /\ InitHost /\ InitLst /\ InitSec /\ InitSrch
    /\ \E st \in SourceStates : src = [s \in Sources \cup {"proc"} |-> IF s = "fd" THEN st ELSE "ok"]
    /\ fd_dir \in FdListings
    /\ info = <<>>
    /\ consulted = {}
    /\ cpc = "ready"

FdNext == GetProcInfo

FdSpec == FdInit /\ [][FdNext]_vars

\* get_all_processes on every platform and every behaviour of the listing utility
ListInit ==
    /\ InitNav /\ InitMon /\ InitEnv /\ InitHost /\ InitCol /\ InitSec /\ InitSrch
    /\ system \in Systems
    /\ ps_result \in PsResults
    /\ listed = <<>>
    /\ diag = "none"
    /\ lpc = "ready"

ListNext == GetAllProcesses

ListSpec == ListInit /\ [][ListNext]_vars

\* get_section_content on every category and every state of the category's source
SectionInit ==
    /\ InitNav /\ InitMon /\ InitEnv /\ InitHost /\ InitLst /\ InitCol /\ InitSrch
    /\ category \in CategorySet
    /\ \E st \in SourceStatesOf(category) : sec = [AbsentHost EXCEPT ![category] = st]
    /\ content = <<>>
    /\ gpc = "ready"

SectionNext == GetSectionContent

SectionSpec == SectionInit /\ [][SectionNext]_vars

\* search_processes on every list and every term of the model
SearchInit ==
    /\ InitNav /\ InitMon /\ InitEnv /\ InitHost /\ InitLst /\ InitCol /\ InitSec
    /\ processes \in ProcLists
    /\ search_term \in Terms
    /\ filtered = <<>>
    /\ refiltered = <<>>
    /\ spc = "ready"

SearchNext == Search \/ SearchAgain

SearchSpec == SearchInit /\ [][SearchNext]_vars

\* the hosts the advanced screen is opened on: an ordinary process with its maps
\* file in any state, a kernel thread, another user's process, and a process that
\* vanished after the screen's existence check
AdvHosts ==
    {[OrdinaryHost EXCEPT !["maps"] = st] : st \in FileStates}
      \cup {KernelThreadHost, DeniedHost, AbsentHost}

\* the advanced screen: the detail screen is open with the menu cursor on
\* "Advanced info", the operator opens the screen and presses any keys
AdvInit ==
    /\ app = "running"
    /\ stack = <<"main", "detail">>
    /\ key = "Down"
    /\ menu_idx = 0
    /\ mode = "menu"
    /\ selected_section = 0
    /\ selected_menu = 2
    /\ collapsed = [i \in 0..(NumSections - 1) |-> FALSE]
    /\ proc_info = "snapshot"
    /\ NoAdvLocals
    /\ NoSelLocals
    /\ InitMon /\ InitEnv /\ InitHost /\ InitLst /\ InitCol /\ InitSrch
    /\ selected = host_procs[1]
    /\ sec \in AdvHosts
    /\ category = "none"
    /\ content = <<>>
    /\ gpc = "ready"

AdvNext ==
    \/ DetailMenuKey("Enter")
    \/ \E k \in AdvKeys : AdvancedKey(k)

AdvSpec == AdvInit /\ [][AdvNext]_vars

\* the selector on every terminal height and every process table, with the search
\* prompt
SelInit ==
    /\ InitNav /\ InitMon /\ InitEnv /\ InitLst /\ InitCol /\ InitSec /\ InitSrch
    /\ LINES \in TermLines
    /\ terminal = "ok"
    /\ host_procs \in SelHosts

SelNext ==
    \/ \E k \in Keys : MainMenuKey(k)
    \/ \E k \in SelKeys : SelectorKey(k)
    \/ \E c \in SearchKeys : SearchInputKey(c)
    \/ \E k \in Keys : DetailErrorKey(k)
    \/ DetailSectionsKey("Quit")

SelSpec == SelInit /\ [][SelNext]_vars

\* the operator shrinks the terminal below what the screens draw on, for good
Shrink ==
    /\ app = "running"
    /\ terminal = "ok"
    /\ terminal' = "small"
    /\ UNCHANGED <<LINES, host_procs>>
    /\ UNCHANGED <<navVars, monVars, envVars, colVars, secVars, srchVars, lstVars>>

\* the three navigation screens on a terminal that is too small from the start or
\* becomes so; the detail screen without its menu actions
RenderInit ==
    /\ InitNav /\ InitMon /\ InitEnv /\ InitLst /\ InitCol /\ InitSec /\ InitSrch
    /\ LINES = 24
    /\ terminal \in {"ok", "small"}
    /\ host_procs = <<ProcTable[1]>>

RenderNext ==
    \/ \E k \in Keys : MainMenuKey(k)
    \/ \E k \in Keys : SelectorKey(k)
    \/ \E k \in Keys : DetailErrorKey(k)
    \/ \E k \in Keys \ {"Enter"} : DetailSectionsKey(k)
    \/ \E k \in Keys \ {"Enter"} : DetailMenuKey(k)
    \/ DrawRetry
    \/ Shrink

\* a screen reads the quit key and handles it (on the error screen, any key)
QuitStep ==
    \/ MainMenuKey("Quit")
    \/ SelectorKey("Quit")
    \/ DetailSectionsKey("Quit")
    \/ DetailMenuKey("Quit")
    \/ DetailErrorKey("Quit")

\* the operator keeps pressing the quit key: whenever a screen stays ready to read
\* it, it is read
RenderFairSpec == RenderInit /\ [][RenderNext]_vars /\ WF_vars(QuitStep)

\* the detail screen with every key in both modes, up to the moment a menu action
\* opens another screen or returns
DetailInit ==
    /\ app = "running"
    /\ stack = <<"main", "detail">>
    /\ key = "Enter"
    /\ menu_idx = 0
    /\ mode = "sections"
    /\ selected_section = 0
    /\ selected_menu = 0
    /\ collapsed = [i \in 0..(NumSections - 1) |-> FALSE]
    /\ proc_info = "snapshot"
    /\ NoAdvLocals
    /\ NoSelLocals
    /\ InitMon /\ InitEnv /\ InitHost /\ InitLst /\ InitCol /\ InitSec /\ InitSrch
    /\ selected = host_procs[1]

DetailNext ==
    \/ \E k \in Keys : DetailSectionsKey(k)
    \/ \E k \in Keys : DetailMenuKey(k)
    \/ DetailMonitor

DetailSpec == DetailInit /\ [][DetailNext]_vars

\* the navigation engine on a terminal that draws every screen: the main menu, the
\* selector with its search input, the detail screen in both modes and the advanced
\* screen, with a target that may exit at any time
NavNext ==
    \/ \E k \in Keys : MainMenuKey(k)
    \/ \E k \in SelKeys : SelectorKey(k)
    \/ \E c \in SearchKeys : SearchInputKey(c)
    \/ \E k \in Keys : DetailErrorKey(k)
    \/ \E k \in PaneKeys : DetailSectionsKey(k)
    \/ \E k \in Keys : DetailMenuKey(k)
    \/ \E k \in PaneKeys : AdvancedKey(k)
    \/ TargetExits

NavSpec == Init /\ [][NavNext]_vars

\* settings of the detail screen's collapse flags: the first section against the rest
ChildCollapsed ==
    {c \in [0..(NumSections - 1) -> BOOLEAN] :
        \A i \in 1..(NumSections - 1) : c[i] = c[1]}

\* the screens opened from the detail menu, with the section cursor on any section
\* and the collapse flags set either way: the menu keys, the monitor with a tracer that
\* prints nothing until the operator interrupts it, the advanced screen, and the
\* way back to the main menu
ChildInit ==
    /\ app = "running"
    /\ stack = <<"main", "detail">>
    /\ key = "Right"
    /\ menu_idx = 0
    /\ mode = "menu"
    /\ selected_section \in 0..(NumSections - 1)
    /\ selected_menu = 0
    /\ collapsed \in ChildCollapsed
    /\ proc_info = "snapshot"
    /\ NoAdvLocals
    /\ NoSelLocals
    /\ InitMon /\ InitEnv /\ InitHost /\ InitLst /\ InitCol /\ InitSec /\ InitSrch
    /\ selected = host_procs[1]

ChildNext ==
    \/ \E k \in {"Up", "Down", "Enter", "Quit"} : DetailMenuKey(k)
    \/ DetailMonitor
    \/ \E k \in {"Up", "Down", "Quit", "Other"} : AdvancedKey(k)
    \/ \E k \in Keys : MainMenuKey(k)
    \/ \E k \in {"Enter", "Quit"} : SelectorKey(k)
    \/ \E k \in {"Right", "Quit"} : DetailSectionsKey(k)
    \/ Probe
    \/ AckProbe
    \/ CheckExists
    \/ Launch
    \/ LoopTop
    \/ Interrupt
    \/ FinTerminate
    \/ FinWait
    \/ FinCheck

ChildSpec == ChildInit /\ [][ChildNext]_vars

\* the program's own steps: whenever the monitor is not blocked in a read and not
\* waiting for the operator, it takes its next step
MonitorStep ==
    \/ Probe
    \/ CheckExists
    \/ Launch
    \/ LoopTop
    \/ ReadLine
    \/ PollInput
    \/ FinTerminate
    \/ FinWait
    \/ FinCheck

\* the application with a monitor that keeps running; the operator, the target and
\* the tracer are free to act or not
FairSpec == Spec /\ WF_vars(MonitorStep)

----------------------------------------------------------------------------
(* Properties of the monitor session *)

\* the monitor function has ended, by return or by an exception
Ended == mpc \in {"returned", "raised"}

\* C1: whenever a monitor session that launched the tracer has ended, the tracer
\* was asked to terminate, was force-killed only after that, and its handle
\* reports it terminated (its returncode is set).
C1_TracerTerminatedAtEnd ==
    (Ended /\ process # 0) =>
        /\ Cur.sigterm \/ Cur.returncode
        /\ Cur.sigkill => Cur.sigterm
        /\ Cur.returncode

\* C2: in the main menu, Enter on the item "Exit" ends the main-menu loop and
\* unwinds the whole screen stack.
C2_EnterOnExitLeaves ==
    [][(MainMenuKey("Enter") /\ menu_items[menu_idx + 1] = "Exit")
          => (stack' = <<>> /\ app' = "exited")]_vars

\* C3: while streaming, once the tracer has exited with the target alive, the
\* session leaves the streaming loop.
C3_TracerExitLeavesLoop ==
    (InLoop /\ Cur.st = "exited" /\ targetAlive) ~> ~InLoop

\* C4: while streaming a live target, a full line typed by the operator is
\* eventually read, whatever the tracer does: no iteration waits without bound on
\* the tracer's output.
C4_TypedLineEventuallyRead ==
    (InLoop /\ targetAlive /\ stdinLine # "none")
        ~> (stdinLine = "none" \/ ~InLoop \/ ~targetAlive)

\* C5: while streaming, once the target is gone the session leaves the loop; the
\* loop is left as "detached" only by the probe, with the exit reported, and from
\* then until the function ends nothing more is shown and no typed line is read
\* or forwarded.
C5_TargetGoneDetected ==
    /\ (InLoop /\ ~targetAlive) ~> ~InLoop
    /\ [](how = "detached" => (~targetAlive /\ lastMsg = "exited"))
    /\ [][(how = "detached" /\ Top = "monitor") =>
            (how' = "detached" /\ lastMsg' = "exited" /\ stdinLine' = stdinLine)]_vars

\* C6: whenever monitor_io_streams returns and the target does not exist at that
\* point, the operator has acknowledged (input() returned) in this session.
C6_AckBeforeReturnWhenGone ==
    [][(mpc # "returned" /\ mpc' = "returned" /\ ~targetAlive') => acked']_vars

\* the tracers created for the current session
SessionTracers == {i \in DOMAIN tracers : tracers[i].sess = sessions}

C8_LaunchErrorContained ==
    (Ended /\ how = "raised" /\ process = 0) =>
        (mpc = "returned" /\ lastMsg = "error" /\ app = "running" /\ Top = "detail")

\* C9: every monitor session has at most one live tracer subprocess, and at most
\* one monitor session is on the call stack; while it is, it is the active screen.
C9_OneTracerOneSession ==
    /\ \A s \in 1..sessions :
         Cardinality({i \in DOMAIN tracers :
                        tracers[i].sess = s /\ tracers[i].st = "running"}) <= 1
    /\ Cardinality({i \in DOMAIN stack : stack[i] = "monitor"}) <= 1
    /\ (mpc \notin {"idle", "returned", "raised"}) <=> (Top = "monitor")
    /\ Top = "monitor" => ~ENABLED DetailMonitor

C9_Witness ==
    /\ InLoop /\ Cur.st = "running" /\ Top = "monitor"

----------------------------------------------------------------------------
(* Properties of get_proc_info *)

\* C10: the collection steps are independent: when get_proc_info has returned for
\* an existing pid, every readable source has its fields in the snapshot,
\* whichever other sources failed.
C10_SourcesIndependent ==
    (cpc = "returned" /\ src.proc = "ok") =>
        \A s \in Sources : src[s] = "ok" => DOMAIN FieldsOf(s) \subseteq DOMAIN info

----------------------------------------------------------------------------
(* Properties of the detail screen *)

\* C11: whenever the snapshot the Process Detail screen holds is the not-found
\* result, taken at screen entry or by "Refresh information", the screen is the
\* one that shows the message and returns on the next key: the sections and the
\* menu are never shown over a not-found result.
C11_NotFoundShownAndReturned ==
    (app = "running" /\ Top \in {"detail", "detail_error"} /\ proc_info = "not_found")
        => Top = "detail_error"

----------------------------------------------------------------------------
(* Properties of get_proc_info, continued *)

\* C12: when get_proc_info has returned for a pid whose /proc entry does not
\* exist, the result is the not-found result, holding the error field only, and
\* no per-process source was tested or opened.
C12_ExistenceCheckFirst ==
    (cpc = "returned" /\ src.proc = "absent") =>
        /\ info = ("error" :> "Process no longer exists")
        /\ consulted = {}

C12_Witness ==
    /\ cpc = "returned" /\ src.proc = "absent"
    /\ \E s \in Sources : src[s] = "ok"

----------------------------------------------------------------------------
(* Properties of get_section_content *)

\* C14: get_section_content never returns an empty sequence: for each of the five
\* categories and every state of its source the result has at least one line.
C14_NeverEmpty ==
    gpc = "returned" => content # <<>>

\* C15: for a pid not present on the host (none of its sources exists),
\* get_section_content returns, for each of the five categories, exactly one
\* line, a "not available" placeholder or an error line.
C15_AbsentPidOneLine ==
    (gpc # "ready" /\ sec = AbsentHost) =>
        /\ gpc = "returned"
        /\ category \in CategorySet
        /\ Len(content) = 1
        /\ content[1].kind = (IF category \in {"cwd", "exe"} THEN "error" ELSE "na")

C15_Witness ==
    /\ gpc = "returned" /\ sec = AbsentHost /\ category = "limits"
    /\ content = <<Line("na", 0, "limits not available")>>

\* C16: for category fd with a listable descriptor directory, the result has
\* exactly one line per directory entry, in the order of the listing, each
\* beginning "fd <id>: " with the entry's id; an entry whose link does not
\* resolve has its own error line and the entries after it are still listed.
C16_FdOneLinePerEntry ==
    (gpc = "returned" /\ category = "fd" /\ sec["fd"].st = "dir") =>
        LET entries == sec["fd"].items
        IN /\ Len(content) = Len(entries)
           /\ \A i \in DOMAIN entries :
                /\ content[i].kind = "fd"
                /\ content[i].id = entries[i].id
                /\ content[i].text =
                     (IF entries[i].target = "broken" THEN "Error" ELSE "target")

C16_Witness ==
    /\ gpc = "returned" /\ category = "fd" /\ sec["fd"].st = "dir"
    /\ Len(sec["fd"].items) = 3
    /\ sec["fd"].items[1].id > sec["fd"].items[2].id
    /\ sec["fd"].items[1].target = "broken"
    /\ sec["fd"].items[3].target = "link"
    /\ Len(content) = 3

----------------------------------------------------------------------------
(* Properties of the advanced screen *)

\* C17: while the advanced screen is open the scroll offset is within the
\* selected section: 0 <= scroll_pos <= max(0, content_length - 1).
C17_ScrollWithinContent ==
    Top = "advanced" =>
        /\ 0 <= scroll_pos
        /\ scroll_pos <= Max(0, max_lines(SelectedCategory) - 1)

\* the sections of the advanced screen, by index
SectionIdx == 0..(Len(Categories) - 1)

\* C18: in the advanced screen a Page Up / Page Down key changes nothing but the
\* scroll offset of the selected category: every collapse flag, the selected
\* index and the cached content are unchanged, and the offset every non-selected
\* category is drawn with is zero before and after.
C18_ScrollKeysIsolated ==
    [][(Top = "advanced" /\ (AdvancedKey("PageDown") \/ AdvancedKey("PageUp"))) =>
          /\ adv_collapsed' = adv_collapsed
          /\ adv_selected_idx' = adv_selected_idx
          /\ section_content' = section_content
          /\ stack' = stack
          /\ \A i \in SectionIdx :
               i # adv_selected_idx => (content_scroll(i) = 0 /\ content_scroll(i)' = 0)]_vars

C18_Witness ==
    /\ Top = "advanced" /\ key = "PageUp"
    /\ adv_selected_idx = 4 /\ scroll_pos = 1
    /\ adv_collapsed[0] /\ ~adv_collapsed[4]

\* C19: in the advanced screen the scroll offset is zero right after every key
\* that changes the selected category and after every collapse toggle, so the
\* section then selected is drawn from its first line.
C19_ScrollResetOnChange ==
    [][(Top = "advanced" /\ Top' = "advanced") =>
          /\ (adv_selected_idx' # adv_selected_idx \/ adv_collapsed' # adv_collapsed)
                => (scroll_pos' = 0 /\ \A i \in SectionIdx : content_scroll(i)' = 0)
          /\ AdvancedKey("Enter") =>
                /\ adv_collapsed' # adv_collapsed
                /\ scroll_pos' = 0]_vars

C19_Witness ==
    /\ Top = "advanced" /\ key = "Enter"
    /\ adv_selected_idx = 4 /\ ~adv_collapsed[4]
    /\ max_lines(SelectedCategory) > PageStep
    /\ scroll_pos = 0

----------------------------------------------------------------------------
(* Properties of search_processes *)

\* C20: search_processes is idempotent on re-application: for every list P and
\* term t, search_processes(search_processes(P, t), t) = search_processes(P, t).
C20_SearchIdempotent ==
    spc = "twice" => refiltered = filtered

C20_Witness ==
    /\ spc = "twice"
    /\ search_term = <<"A">>
    /\ Len(processes) = 2 /\ Len(filtered) = 1
    /\ filtered[1][2] = <<"a">>
    /\ refiltered = filtered

\* t occurs in str when letter case is ignored: at some offset every character of
\* t equals the character of str there, up to case
OccursIgnoringCase(t, str) ==
    \E off \in 0..(Len(str) - Len(t)) :
        \A j \in 1..Len(t) : LowerChar(t[j]) = LowerChar(str[off + j])

\* the elements of P whose pid or command contains t, in their order in P
MatchingInOrder(P, t) ==
    LET M == {i \in DOMAIN P : OccursIgnoringCase(t, P[i][1]) \/ OccursIgnoringCase(t, P[i][2])}
        Nth(k) == CHOOSE i \in M : Cardinality({j \in M : j < i}) = k - 1
    IN [k \in 1..Cardinality(M) |-> P[Nth(k)]]

\* C21: search_processes(P, t) returns exactly the elements of P whose pid or
\* command contains t case-insensitively, in their original order, and leaves the
\* list P as it was.
C21_SearchExactInOrder ==
    [][Search => (/\ filtered' = MatchingInOrder(processes, search_term)
                  /\ processes' = processes
                  /\ search_term' = search_term)]_vars

C21_Witness ==
    /\ spc = "once"
    /\ search_term = <<"A">>
    /\ Len(processes) = 2
    /\ processes[1] = <<(<<"1">>), (<<"2">>)>>
    /\ processes[2] = <<(<<"1", "2">>), (<<"a">>)>>
    /\ filtered = <<processes[2]>>

\* C22: when the descriptor directory is listable, fd_count is the number of its
\* entries and fd_details holds at most min(10, fd_count) pairs, all of them among
\* the first 10 entries and in enumeration order; when listing is denied, fd_count
\* is the permission-denied marker and not a count.
C22_FdCountAndDetails ==
    cpc = "returned" =>
        /\ src.fd = "ok" =>
              /\ info["fd_count"] = Len(fd_dir)
              /\ Len(info["fd_details"]) <= Min(10, Len(fd_dir))
              /\ \A k \in DOMAIN info["fd_details"] :
                    /\ info["fd_details"][k] \in 1..Min(10, Len(fd_dir))
                    /\ fd_dir[info["fd_details"][k]] = "link"
                    /\ \A j \in DOMAIN info["fd_details"] :
                          j < k => info["fd_details"][j] < info["fd_details"][k]
        /\ src.fd = "denied" =>
              /\ info["fd_count"] = "(Permission denied)"
              /\ "fd_details" \notin DOMAIN info

C22_Witness ==
    /\ cpc = "returned"
    /\ src.fd = "ok"
    /\ Len(fd_dir) = 11
    /\ fd_dir[3] = "broken"
    /\ fd_dir[11] = "link"
    /\ info["fd_count"] = 11
    /\ Len(info["fd_details"]) = 9

----------------------------------------------------------------------------
(* Properties of get_all_processes *)

\* C23: get_all_processes never raises; when the listing utility is missing or
\* fails, or the operating system is unsupported, it returns the empty list and
\* prints a message; an output with no usable line gives the empty list with no
\* message.
C23_ListNeverRaises ==
    /\ lpc # "raised"
    /\ lpc = "returned" =>
          /\ (system \notin {"Linux", "Windows"} \/ ps_result.err \in PsErrors) =>
                listed = <<>> /\ diag # "none"
          /\ (/\ system \in {"Linux", "Windows"}
              /\ ps_result.err = "none"
              /\ \A i \in DOMAIN ps_result.out : ps_result.out[i] = "short") =>
                listed = <<>> /\ diag = "none"

C23_Witness ==
    /\ lpc = "returned"
    /\ system = "Linux"
    /\ ps_result.err = "FileNotFoundError"
    /\ listed = <<>>
    /\ diag = "Error getting process list"

----------------------------------------------------------------------------
(* Properties of the process selector *)

\* the index Enter looks up: page * page_size + selected_idx
GlobalIdx == page * page_size + sel_idx

\* the selector's main loop is waiting for a key
InSelector == app = "running" /\ Top = "selector" /\ sel_pc = "keys"

\* C24: on every terminal size, page sizes of zero and below included, and for
\* every key sequence, no failure leaves a navigation screen and ends the
\* application.
C24_NoFailureEscapes ==
    [][(app = "running" /\ Top \in {"main", "selector"}) => app' # "crashed"]_vars

\* C26: in the selector with page size >= 1, after any move, paging and search keys
\* the global index names an element of the filtered list whenever that list is not
\* empty; Enter on a non-empty list returns that element, Enter on an empty list
\* returns nothing and stays on the screen.
C26_IndexInRange ==
    /\ []((InSelector /\ page_size >= 1 /\ filtered_processes # <<>>) =>
            (0 <= GlobalIdx /\ GlobalIdx < Len(filtered_processes)))
    /\ [][(InSelector /\ page_size >= 1 /\ SelectorKey("Enter")) =>
            IF filtered_processes # <<>>
            THEN /\ GlobalIdx \in 0..(Len(filtered_processes) - 1)
                 /\ selected' = filtered_processes[GlobalIdx + 1]
                 /\ Top' \in {"detail", "detail_error"}
            ELSE /\ Top' = "selector"
                 /\ UNCHANGED selVars]_vars

C26_Witness ==
    /\ InSelector
    /\ page_size = 2
    /\ Len(filtered_processes) = 3
    /\ Len(sel_processes) = 5
    /\ page = 1
    /\ sel_idx = 0
    /\ key = "Down"

\* C27: in the selector Down moves the global index forward by exactly one, from
\* the last row of a page to the first row of the next, and Up moves it back by
\* exactly one, from the first row of a page to the last row of the previous one;
\* Up at the first element and Down at the last element change nothing.
C27_VerticalMovesByOne ==
    [][/\ (InSelector /\ key' = "Down") =>
            IF GlobalIdx < Len(filtered_processes) - 1
            THEN /\ page' * page_size' + sel_idx' = GlobalIdx + 1
                 /\ sel_idx' = (IF sel_idx = page_size - 1 THEN 0 ELSE sel_idx + 1)
            ELSE UNCHANGED <<page, sel_idx>>
       /\ (InSelector /\ key' = "Up") =>
            IF GlobalIdx > 0
            THEN /\ page' * page_size' + sel_idx' = GlobalIdx - 1
                 /\ sel_idx' = (IF sel_idx = 0 THEN page_size - 1 ELSE sel_idx - 1)
            ELSE UNCHANGED <<page, sel_idx>>]_vars

\* the step that ends the search input: the input loop is left, or the prompt could
\* not be drawn and the loop was never entered
SearchEnds ==
    /\ app = "running" /\ Top = "selector"
    /\ sel_pc' = "keys"
    /\ sel_pc = "search" \/ key' = "Search"

\* C28: whenever the search input ends, the filtered list is search_processes of
\* the list the selector was opened with and the term confirmed with Enter (trimmed,
\* not empty), or that whole list when the search was cancelled with Escape or the
\* term is empty; page and selection are 0. An earlier filter never narrows the
\* result and a cancelled search clears it.
C28_FilterFromConfirmedTerm ==
    [][SearchEnds =>
         /\ page' = 0
         /\ sel_idx' = 0
         /\ sel_processes' = sel_processes
         /\ filtered_processes' =
              IF key' = "Enter" /\ Strip(search_buf) # <<>>
              THEN search_processes(sel_processes, Strip(search_buf))
              ELSE sel_processes]_vars

----------------------------------------------------------------------------
(* Properties of rendering *)

\* C25: in the main menu, the selector and the detail screen a draw that fails does
\* not keep the screen from reading keys: even when every draw fails, a quit key is
\* eventually read and handled, so quit keys keep being handled until the
\* application is left.
C25_QuitReadDespiteDrawFailure ==
    []<><<QuitStep>>_vars \/ <>(app # "running")

----------------------------------------------------------------------------
(* Properties of the detail screen *)

\* the detail screen's loop is the innermost one
InDetail == app = "running" /\ Top = "detail"

\* C29: in the detail screen the mode changes only on Right (sections to menu) and
\* Left (menu to sections); in menu mode no key changes a collapse flag or the
\* selected section; in sections mode no key changes the selected menu item or
\* starts a menu action; a toggle flips the selected section's flag and no other.
C29_ModesIsolated ==
    [][InDetail =>
         /\ (mode' # mode) =>
              \/ mode = "sections" /\ key' = "Right" /\ mode' = "menu"
              \/ mode = "menu" /\ key' = "Left" /\ mode' = "sections"
         /\ (mode = "menu") => UNCHANGED <<collapsed, selected_section>>
         /\ (mode = "sections") =>
              /\ UNCHANGED <<selected_menu, proc_info, mpc, sessions, advVars>>
              /\ stack' = stack \/ (key' = "Quit" /\ stack' = Pop(stack))
         /\ (collapsed' # collapsed) =>
              /\ key' = "Enter"
              /\ collapsed'[selected_section] = ~collapsed[selected_section]
              /\ \A i \in DOMAIN collapsed :
                   i # selected_section => collapsed'[i] = collapsed[i]]_vars

C29_Witness ==
    /\ InDetail
    /\ mode = "menu"
    /\ key = "Down"
    /\ selected_menu = 2
    /\ selected_section = 3
    /\ collapsed[3]
    /\ \A i \in DOMAIN collapsed : i # 3 => ~collapsed[i]

\* the frame of show_process_details is on the stack: the screen itself, or a
\* screen opened from its menu
DetailOpen ==
    /\ app = "running"
    /\ Len(stack) >= 2
    /\ stack[2] = "detail"

\* Enter on "Refresh information" is read in menu mode
RefreshConfirmed ==
    /\ selected_menu = 0
    /\ DetailMenuKey("Enter")

\* C30: the detail screen's held snapshot is replaced by the result of a new
\* get_proc_info exactly when "Refresh information" is confirmed; no other key, and
\* no opening of or return from the monitor or the advanced screen, changes it.
C30_SnapshotReplacedOnRefreshOnly ==
    [][DetailOpen =>
         /\ RefreshConfirmed => proc_info' \in ProcInfoKinds
         /\ ~RefreshConfirmed => proc_info' = proc_info]_vars

C30_Witness ==
    /\ InDetail
    /\ mode = "menu"
    /\ selected_menu = 0
    /\ key = "Enter"
    /\ ~targetAlive
    /\ proc_info = "not_found"
    /\ sessions >= 1

----------------------------------------------------------------------------
(* Properties of the screens opened from the detail menu *)

\* the screens show_process_details opens from its menu
Children == {"monitor", "advanced", "advanced_gone"}

\* C31: a step taken while Advanced Info or the Live Output Monitor is open, and the
\* steps that open and close them, leave the detail screen's mode, selected section,
\* selected menu item and collapse flags as they are, and a child that returns hands
\* the input back to the detail screen; a step taken while the selector or the detail
\* screen or one of its children is open, and the steps that open and close them, leave
\* the main menu's selected index as it is
C31_ChildLeavesParentState ==
    [][ /\ (Top \in Children \/ Top' \in Children)
            => UNCHANGED <<mode, selected_section, selected_menu, collapsed>>
        /\ (Top \in Children /\ stack' # stack /\ app' = "running")
            => stack' = Pop(stack) /\ Top' = "detail"
        /\ (Len(stack) >= 2 \/ Len(stack') >= 2) => menu_idx' = menu_idx
      ]_vars

\* the detail screen has the input again after the monitor returned and the advanced
\* screen's cursor was moved, with the last section selected and sections collapsed
C31_Witness ==
    /\ app = "running" /\ Top = "detail"
    /\ sessions > 0
    /\ key = "Quit"
    /\ mode = "menu"
    /\ selected_section = NumSections - 1
    /\ collapsed[0] /\ ~collapsed[1]
    /\ selected_menu = 2

----------------------------------------------------------------------------
(* Properties of the write to the target's standard input *)

\* the streaming loop takes the line the operator typed
TakesTypedLine == mpc = "poll" /\ stdinLine = "text" /\ stdinLine' = "none"

\* C32: the step of the streaming loop that takes an operator-typed line goes on to
\* the next iteration whether the write to the target's standard input succeeded or
\* failed, a failure being reported inline; it ends no session, raises nothing, and
\* leaves the tracer subprocess, its handle and its unread output as they are
C32_FailedWriteContinues ==
    [][ TakesTypedLine =>
          /\ mpc' = "top"
          /\ lastMsg' \in {"sent", "send_error", lastMsg}
          /\ UNCHANGED <<app, stack, process, exc, how, acked, sessions>>
          /\ UNCHANGED <<probeRes, existRes, tracers, pipe, targetAlive>>
      ]_vars

\* a write has failed and the loop is at its next iteration with its tracer running
C32_Witness ==
    /\ app = "running" /\ Top = "monitor"
    /\ mpc = "top"
    /\ lastMsg = "send_error"
    /\ stdinLine = "none"
    /\ exc = "none"
    /\ process # 0
    /\ Cur.st = "running"

----------------------------------------------------------------------------
(* Properties of the classification of tracer output *)

\* the streaming loop reads a traced write to a descriptor other than 1
ReadsOtherWrite ==
    /\ mpc = "read"
    /\ pipe # <<>>
    /\ Head(pipe) = "write2kw"
    /\ pipe' = Tail(pipe)

\* C33: reading a traced write to a descriptor other than 1 prints nothing, neither
\* its text as payload nor a bracketed status line that holds the line
C33_OtherWritesNeverShown ==
    [][ ReadsOtherWrite => lastMsg' = lastMsg ]_vars

----------------------------------------------------------------------------
(* Properties of the Escape key *)

\* the screens of the navigation engine
NavScreens == {"main", "selector", "detail", "detail_error", "advanced", "advanced_gone"}

\* the open screens and sub-states: the frames of the call stack, and the search input
\* of the selector when it is open
Depth == Len(stack) + (IF sel_pc = "search" THEN 1 ELSE 0)

\* the most screens and sub-states open at once: the main menu, the detail screen and
\* the advanced screen, or the main menu, the selector and its search input
MaxDepth == 3

\* q or Escape pressed on the screen that has the input (Escape in the search input)
EscapePressed ==
    \/ MainMenuKey("Quit")
    \/ SelectorKey("Quit")
    \/ SearchInputKey("Esc")
    \/ DetailErrorKey("Quit")
    \/ DetailSectionsKey("Quit")
    \/ DetailMenuKey("Quit")
    \/ AdvancedKey("Quit")

\* C34: while the application runs between one and three screens and sub-states are
\* open, the screen that has the input accepts Escape, every Escape press closes
\* exactly one of them, and closing the last one leaves the application; so from any
\* state as many Escape presses as there are open screens and sub-states leave it
C34_EscapeLeaves ==
    /\ [](app = "running" => /\ Depth \in 1..MaxDepth
                              /\ Top \in NavScreens
                              /\ ENABLED EscapePressed)
    /\ [](app = "exited" => Depth = 0)
    /\ [][ EscapePressed => /\ Depth' = Depth - 1
                            /\ (Depth' = 0 => app' = "exited")
                            /\ (Depth' > 0 => app' = "running")
         ]_vars

\* Escape has closed the advanced screen, the third screen open: the detail screen has
\* the input and two presses are left
C34_Witness ==
    /\ app = "running"
    /\ key = "Quit"
    /\ stack = <<"main", "detail">>
    /\ mode = "menu" /\ selected_menu = 2
    /\ Depth = MaxDepth - 1

====
